---- MODULE Spec2Model ----
(***************************************************************************)
(* Model of src/code.py: the medical cost estimator and hospital           *)
(* recommender.  The script is one sequential run: load and normalise the  *)
(* hospital sheet, read the console answers, validate, estimate the cost,  *)
(* print the summary, filter the directory (primary mask, fallback), build *)
(* the labels, print the first rows, draw the chart.                       *)
(*                                                                         *)
(* Text is modelled as a sequence of one-character strings, so that        *)
(* strip(), lower(), title(), int(), float() and the pattern search of     *)
(* Series.str.contains are computed and not assumed.                       *)
(***************************************************************************)
EXTENDS Integers, Sequences, FiniteSets, TLC

(***************************************************************************)
(* Bounds of the model.                                                    *)
(***************************************************************************)
\* every sequence over RecordPool of at most this many rows is a directory
MaxShortRows == 2
\* the generated long directories have up to this many rows (above head(10))
MaxLongRows == 12

(***************************************************************************)
(* Characters and the str methods the script calls.                        *)
(***************************************************************************)
UpperChars == <<"A", "B", "C", "D", "E", "F", "G", "H", "I", "J", "K", "L", "M", "N", "O", "P", "Q", "R", "S", "T", "U", "V", "W", "X", "Y", "Z">>
LowerChars == <<"a", "b", "c", "d", "e", "f", "g", "h", "i", "j", "k", "l", "m", "n", "o", "p", "q", "r", "s", "t", "u", "v", "w", "x", "y", "z">>
Digits == <<"0", "1", "2", "3", "4", "5", "6", "7", "8", "9">>

IsUpper(c) == \E i \in DOMAIN UpperChars : UpperChars[i] = c
IsLower(c) == \E i \in DOMAIN LowerChars : LowerChars[i] = c
IsCased(c) == IsUpper(c) \/ IsLower(c)
IsDigit(c) == \E i \in DOMAIN Digits : Digits[i] = c
IsSpace(c) == c = " "

LowerChar(c) ==
    IF IsUpper(c) THEN LowerChars[CHOOSE i \in DOMAIN UpperChars : UpperChars[i] = c] ELSE c
UpperChar(c) ==
    IF IsLower(c) THEN UpperChars[CHOOSE i \in DOMAIN LowerChars : LowerChars[i] = c] ELSE c
DigitVal(c) == (CHOOSE i \in DOMAIN Digits : Digits[i] = c) - 1

\* str.lower()
Lower(s) == [i \in 1..Len(s) |-> LowerChar(s[i])]

\* str.title(): a cased character is upper-cased when the character before it
\* is not cased, and lower-cased when it is
Title(s) ==
    [i \in 1..Len(s) |->
        IF i > 1 /\ IsCased(s[i - 1]) THEN LowerChar(s[i]) ELSE UpperChar(s[i])]

\* str.strip(): leading and trailing whitespace removed
RECURSIVE LStrip(_)
LStrip(s) == IF s # <<>> /\ IsSpace(Head(s)) THEN LStrip(Tail(s)) ELSE s
RECURSIVE RStrip(_)
RStrip(s) ==
    IF s # <<>> /\ IsSpace(s[Len(s)]) THEN RStrip(SubSeq(s, 1, Len(s) - 1)) ELSE s
Strip(s) == RStrip(LStrip(s))

(***************************************************************************)
(* int() and float() of a console line.  The grammar covers the lines the  *)
(* model types: an optional sign, decimal digits, one optional point, and  *)
(* the words nan / inf / infinity for float().                             *)
(***************************************************************************)
s_nan == <<"n", "a", "n">>
s_inf == <<"i", "n", "f">>
s_infinity == <<"i", "n", "f", "i", "n", "i", "t", "y">>

AllDigits(s) == \A i \in DOMAIN s : IsDigit(s[i])
RECURSIVE DigitsVal(_)
DigitsVal(s) ==
    IF s = <<>> THEN 0 ELSE 10 * DigitsVal(SubSeq(s, 1, Len(s) - 1)) + DigitVal(s[Len(s)])
RECURSIVE Pow10(_)
Pow10(n) == IF n = 0 THEN 1 ELSE 10 * Pow10(n - 1)

HasSign(s) == s # <<>> /\ Head(s) \in {"+", "-"}
Unsigned(s) == IF HasSign(s) THEN Tail(s) ELSE s
IsNegative(s) == s # <<>> /\ Head(s) = "-"

\* int(text): [ok |-> FALSE] stands for the ValueError
ParseInt(text) ==
    LET s == Strip(text)
        d == Unsigned(s)
    IN  IF d # <<>> /\ AllDigits(d)
        THEN [ok |-> TRUE, val |-> IF IsNegative(s) THEN 0 - DigitsVal(d) ELSE DigitsVal(d)]
        ELSE [ok |-> FALSE, val |-> 0]

\* float(text): a finite value is the exact fraction num / den (the lines of
\* the model have at most one decimal, which a double compares exactly with 30)
ParseFloat(text) ==
    LET s == Strip(text)
        d == Unsigned(s)
        neg == IsNegative(s)
        dots == {i \in DOMAIN d : d[i] = "."}
        bad == [ok |-> FALSE, kind |-> "none", neg |-> FALSE, num |-> 0, den |-> 1]
    IN  IF Lower(d) = s_nan
        THEN [ok |-> TRUE, kind |-> "nan", neg |-> neg, num |-> 0, den |-> 1]
        ELSE IF Lower(d) \in {s_inf, s_infinity}
        THEN [ok |-> TRUE, kind |-> "inf", neg |-> neg, num |-> 0, den |-> 1]
        ELSE IF dots = {}
        THEN IF d # <<>> /\ AllDigits(d)
             THEN [ok |-> TRUE, kind |-> "finite", neg |-> neg, num |-> DigitsVal(d), den |-> 1]
             ELSE bad
        ELSE IF Cardinality(dots) = 1
        THEN LET p == CHOOSE i \in dots : TRUE
                 ip == SubSeq(d, 1, p - 1)
                 fp == SubSeq(d, p + 1, Len(d))
             IN  IF AllDigits(ip) /\ AllDigits(fp) /\ Len(ip) + Len(fp) > 0
                 THEN [ok |-> TRUE, kind |-> "finite", neg |-> neg,
                       num |-> DigitsVal(ip) * Pow10(Len(fp)) + DigitsVal(fp),
                       den |-> Pow10(Len(fp))]
                 ELSE bad
        ELSE bad

\* float > int, with Python's rules for nan (never greater) and inf
FloatGreater(f, n) ==
    CASE f.kind = "nan" -> FALSE
      [] f.kind = "inf" -> ~f.neg
      [] OTHER -> (IF f.neg THEN 0 - f.num ELSE f.num) > n * f.den

(***************************************************************************)
(* The treatment cost table.                                               *)
(***************************************************************************)
k_cold_flu == <<"c", "o", "l", "d", "/", "f", "l", "u">>
k_fever == <<"f", "e", "v", "e", "r">>
k_diabetes_check_up == <<"d", "i", "a", "b", "e", "t", "e", "s", " ", "c", "h", "e", "c", "k", "-", "u", "p">>
k_orthopedic == <<"o", "r", "t", "h", "o", "p", "e", "d", "i", "c">>
k_cardiac == <<"c", "a", "r", "d", "i", "a", "c">>
k_neurology == <<"n", "e", "u", "r", "o", "l", "o", "g", "y">>
k_skin_allergy == <<"s", "k", "i", "n", " ", "a", "l", "l", "e", "r", "g", "y">>
k_dental_care == <<"d", "e", "n", "t", "a", "l", " ", "c", "a", "r", "e">>
s_public == <<"p", "u", "b", "l", "i", "c">>
s_private == <<"p", "r", "i", "v", "a", "t", "e">>
s_specialty == <<"s", "p", "e", "c", "i", "a", "l", "t", "y">>
s_yes == <<"y", "e", "s">>

\* the tiers in the order the inner dicts list them
TierOrder == <<s_public, s_private, s_specialty>>

Tiers(pub, priv, spec) == (s_public :> pub) @@ (s_private :> priv) @@ (s_specialty :> spec)

treatment_costs ==
    (k_cold_flu :> Tiers(<<50, 200>>, <<300, 600>>, <<800, 1200>>))
    @@ (k_fever :> Tiers(<<50, 250>>, <<300, 600>>, <<1000, 1800>>))
    @@ (k_diabetes_check_up :> Tiers(<<0, 0>>, <<600, 1200>>, <<2500, 4000>>))
    @@ (k_orthopedic :> Tiers(<<5000, 8000>>, <<20000, 25000>>, <<35000, 40000>>))
    @@ (k_cardiac :> Tiers(<<70000, 100000>>, <<150000, 200000>>, <<300000, 350000>>))
    @@ (k_neurology :> Tiers(<<40000, 60000>>, <<120000, 150000>>, <<250000, 300000>>))
    @@ (k_skin_allergy :> Tiers(<<100, 300>>, <<600, 2000>>, <<3000, 3500>>))
    @@ (k_dental_care :> Tiers(<<300, 600>>, <<2000, 2500>>, <<4000, 5000>>))

\* (a + b) / 2; every range of the table has an even sum, so the float the
\* script computes is this integer
Average(a, b) == (a + b) \div 2

(***************************************************************************)
(* The pattern search behind Series.str.contains(pat, na=False): pat is    *)
(* compiled as a regular expression (regex=True is the default) and        *)
(* searched in each cell.  The patterns of the model are made of literal   *)
(* characters, "." (any character), "$" (end of the text) and parentheses  *)
(* (a group; unbalanced parentheses do not compile).                       *)
(***************************************************************************)
RECURSIVE ParenDepthOk(_, _)
ParenDepthOk(pat, depth) ==
    IF pat = <<>> THEN depth = 0
    ELSE IF Head(pat) = "(" THEN ParenDepthOk(Tail(pat), depth + 1)
    ELSE IF Head(pat) = ")" THEN depth > 0 /\ ParenDepthOk(Tail(pat), depth - 1)
    ELSE ParenDepthOk(Tail(pat), depth)

\* re.compile(pat) succeeds
ReCompiles(pat) == ParenDepthOk(pat, 0)

RECURSIVE MatchHere(_, _, _, _)
MatchHere(pat, p, s, i) ==
    IF p > Len(pat) THEN TRUE
    ELSE IF pat[p] \in {"(", ")"} THEN MatchHere(pat, p + 1, s, i)
    ELSE IF pat[p] = "$" THEN i = Len(s) + 1 /\ MatchHere(pat, p + 1, s, i)
    ELSE /\ i <= Len(s)
         /\ (pat[p] = "." \/ pat[p] = s[i])
         /\ MatchHere(pat, p + 1, s, i + 1)

\* re.search(pat, s) is not None
ReSearch(pat, s) == \E i \in 1..(Len(s) + 1) : MatchHere(pat, 1, s, i)

\* faulty variant of StrContains: an empty cell counted as a match
StrContainsEmptyMatches(cell, pat) == cell = <<>> \/ ReSearch(pat, cell)

\* one element of Series.str.contains(pat, na=False)
StrContains(cell, pat) == ReSearch(pat, cell)

(***************************************************************************)
(* The hospital sheet: columns is the header row, rows the data rows, each *)
(* a sequence of cells aligned with the header.  NaN is the empty cell.    *)
(***************************************************************************)
NaN == <<"NaN">>

c_hospital_name == <<"h", "o", "s", "p", "i", "t", "a", "l", " ", "n", "a", "m", "e">>
c_best_treatments == <<"b", "e", "s", "t", "_", "t", "r", "e", "a", "t", "m", "e", "n", "t", "s">>
c_city == <<"c", "i", "t", "y">>
c_hospital__type == <<"h", "o", "s", "p", "i", "t", "a", "l", " ", "_", "t", "y", "p", "e">>
c_hospital_type == <<"h", "o", "s", "p", "i", "t", "a", "l", "_", "t", "y", "p", "e">>

expected_cols == <<c_hospital_name, c_best_treatments, c_city, c_hospital__type>>

\* faulty variant of NormalizeColumn: the label trimmed but not lowercased
NormalizeColumnNoLower(c) == Strip(c)

\* columns.str.strip().str.lower(), one label
NormalizeColumn(c) == Lower(Strip(c))

\* [c for c in expected_cols if c not in columns]
RECURSIVE MissingOf(_, _)
MissingOf(expected, cols) ==
    IF expected = <<>> THEN <<>>
    ELSE (IF \E i \in DOMAIN cols : cols[i] = Head(expected) THEN <<>> ELSE <<Head(expected)>>)
         \o MissingOf(Tail(expected), cols)

\* rename(columns={'hospital _type': 'hospital_type'})
RenameColumn(c) == IF c = c_hospital__type THEN c_hospital_type ELSE c

Positions(cols, c) == {i \in DOMAIN cols : cols[i] = c}

\* df[c] is a Series when the label is unique; with a repeated label it is a
\* DataFrame, which has no .str accessor (AttributeError)
IsSeries(cols, c) == Cardinality(Positions(cols, c)) = 1
ColPos(cols, c) == CHOOSE i \in DOMAIN cols : cols[i] = c

\* fillna("").astype(str).str.strip(), one cell
CleanCell(cell) == IF cell = NaN THEN <<>> ELSE Strip(cell)

\* an f-string field: str(value)
Format(cell) == IF cell = NaN THEN s_nan ELSE cell

Cell(df, r, c) == df.rows[r][ColPos(df.columns, c)]

(***************************************************************************)
(* The estimate (lines 84-92), the summary block (94-100) and the chart    *)
(* data (153).                                                             *)
(***************************************************************************)
\* treatment_costs[treatment].get(hospital_type, (0, 0))
BaseRange(t, h) ==
    IF h \in DOMAIN treatment_costs[t] THEN treatment_costs[t][h] ELSE <<0, 0>>

SmokerAdjustment(s) == IF s = s_yes THEN 1000 ELSE 0
BmiAdjustment(b) == IF FloatGreater(b, 30) THEN 500 ELSE 0
\* faulty variant of AgeAdjustment: the age test written with >=
AgeAdjustmentInclusive(a) == IF a >= 60 THEN 1000 ELSE 0
AgeAdjustment(a) == IF a > 60 THEN 1000 ELSE 0

EstimatedCost(lo, hi, s, b, a) ==
    Average(lo, hi) + SmokerAdjustment(s) + BmiAdjustment(b) + AgeAdjustment(a)

\* faulty variant of SummaryBlock: the range shifted by the adjustments, as
\* the estimate is
SummaryBlockAdjustedRange(n, c, h, cost, lo, hi) ==
    [name |-> n, city |-> Title(c), hospital_type |-> Title(h), estimated_cost |-> cost,
     range |-> <<lo + (cost - Average(lo, hi)), hi + (cost - Average(lo, hi))>>]

\* the five lines between the rules; round(estimated_cost, 2) of a whole number
\* of rupees is that number
SummaryBlock(n, c, h, cost, lo, hi) ==
    [name |-> n, city |-> Title(c), hospital_type |-> Title(h),
     estimated_cost |-> cost, range |-> <<lo, hi>>]

\* {k: (v[0] + v[1]) / 2 for k, v in treatment_costs[treatment].items()}
AvgCostData(t) ==
    [i \in DOMAIN TierOrder |->
        [tier |-> TierOrder[i],
         cost |-> Average(treatment_costs[t][TierOrder[i]][1], treatment_costs[t][TierOrder[i]][2])]]

(***************************************************************************)
(* The hospital filter (lines 106-119), the labels (121-131) and the rows  *)
(* of the listing (134-144).  A filtered frame is the ascending sequence   *)
(* of the row numbers it keeps, as pandas keeps the index of the rows.     *)
(***************************************************************************)
RECURSIVE RowsWhere(_, _, _)
RowsWhere(mask, r, n) ==
    IF r > n THEN <<>>
    ELSE (IF mask[r] THEN <<r>> ELSE <<>>) \o RowsWhere(mask, r + 1, n)

\* bt_series.str.contains(treatment_lc, na=False)
TreatmentMask(df, treatment_lc) ==
    [r \in DOMAIN df.rows |-> StrContains(Lower(Cell(df, r, c_best_treatments)), treatment_lc)]

\* city_series.str.contains(city_lc, na=False)
CityMask(df, city_lc) ==
    [r \in DOMAIN df.rows |-> StrContains(Lower(Cell(df, r, c_city)), city_lc)]

\* hospital_df[mask]
Primary(df, treatment_lc, city_lc) ==
    RowsWhere([r \in DOMAIN df.rows |->
                  TreatmentMask(df, treatment_lc)[r] /\ CityMask(df, city_lc)[r]],
              1, Len(df.rows))

\* hospital_df[bt_series.str.contains(treatment_lc, na=False)]
Fallback(df, treatment_lc) == RowsWhere(TreatmentMask(df, treatment_lc), 1, Len(df.rows))

\* faulty variant of HospitalInfo: the tier as the sheet spells it, .title()
\* forgotten
HospitalInfoNoTitle(df, r) ==
    Format(Cell(df, r, c_hospital_name)) \o <<" ", "(">>
        \o Cell(df, r, c_hospital_type) \o <<")">>

\* f"{r['hospital name']} ({r['hospital_type'].title()})"
HospitalInfo(df, r) ==
    Format(Cell(df, r, c_hospital_name)) \o <<" ", "(">>
        \o Title(Cell(df, r, c_hospital_type)) \o <<")">>

\* the bound of .head(10)
HeadLimit == 10
\* faulty variant of HeadRows: no truncation
HeadRowsAll(s) == s
HeadRows(s) == SubSeq(s, 1, IF Len(s) < HeadLimit THEN Len(s) ELSE HeadLimit)

\* reset_index(drop=True).head(10), then one table row per (idx, row)
TableRows(df, rows, info) ==
    LET shown == HeadRows(rows)
    IN  [i \in DOMAIN shown |->
            [no |-> (i - 1) + 1, hospital |-> info[i], city |-> Title(Cell(df, shown[i], c_city))]]

(***************************************************************************)
(* The inputs of a run: the sheet at file_path and the lines typed at the  *)
(* console.                                                                *)
(***************************************************************************)
RowA == <<<<"A", "p", "o", "l", "l", "o">>, <<"C", "a", "r", "d", "i", "a", "c", " ", "S", "u", "r", "g", "e", "r", "y">>, <<"G", "o", "a">>, <<"p", "r", "i", "v", "a", "t", "e">>>>
RowB == <<<<" ", "K", "e", "m", " ">>, <<"c", "a", "r", "d", "i", "a", "c", ",", " ", "f", "e", "v", "e", "r">>, <<" ", "G", "O", "A", " ">>, NaN>>
RowC == <<<<"C", "i", "t", "y", " ", "C", "a", "r", "e">>, <<"F", "e", "v", "e", "r">>, <<"g", ".", "a">>, <<" ", "m", "u", "l", "t", "i", " ", "S", "P", "E", "C", "I", "A", "L", "T", "Y", " ">>>>
RowD == <<NaN, <<"c", "a", "r", "d", "i", "a", "c">>, NaN, <<"P", "u", "b", "l", "i", "c">>>>
RowE == <<<<"S", "u", "n">>, NaN, <<"G", "o", "a">>, <<"P", "u", "b", "l", "i", "c">>>>
RowF == <<<<"M", "a", "x">>, <<"c", "a", "r", "d", "i", "a", "c">>, <<"P", "u", "n", "e">>, <<"s", "p", "e", "c", "i", "a", "l", "t", "y">>>>
RecordPool == {RowA, RowB, RowC, RowD, RowE, RowF}

GoodHeader == <<<<"H", "o", "s", "p", "i", "t", "a", "l", " ", "N", "a", "m", "e">>, <<"B", "e", "s", "t", "_", "T", "r", "e", "a", "t", "m", "e", "n", "t", "s">>, <<" ", "C", "i", "t", "y", " ">>, <<"H", "o", "s", "p", "i", "t", "a", "l", " ", "_", "T", "y", "p", "e">>>>

RECURSIVE SeqsUpTo(_, _)
SeqsUpTo(S, n) ==
    IF n = 0 THEN {<<>>}
    ELSE LET shorter == SeqsUpTo(S, n - 1)
         IN  shorter \cup {Append(s, x) : s \in shorter, x \in S}

ShortDirectories == SeqsUpTo(RecordPool, MaxShortRows)

\* long directories: every row offers cardiac in Goa, except that in the
\* "gap" kind row 2 is in Pune; the names are H0 .. H9 by row number
LongRow(i, kind) ==
    <<(<<"H", Digits[(i % 10) + 1]>>), <<"C", "a", "r", "d", "i", "a", "c", " ", "S", "u", "r", "g", "e", "r", "y">>,
      IF kind = "gap" /\ i = 2 THEN <<"P", "u", "n", "e">> ELSE <<"G", "o", "a">>, <<"p", "r", "i", "v", "a", "t", "e">>>>
LongDirectories ==
    {[i \in 1..n |-> LongRow(i, kind)] : n \in (HeadLimit - 1)..MaxLongRows, kind \in {"all", "gap"}}

Sheet(header, rows) == [columns |-> header, rows |-> rows]

\* headers that lack a required column, repeat one, or carry an extra one
HeaderPool ==
    {GoodHeader,
     <<<<"H", "o", "s", "p", "i", "t", "a", "l", " ", "N", "a", "m", "e">>, <<"B", "e", "s", "t", "_", "T", "r", "e", "a", "t", "m", "e", "n", "t", "s">>, <<" ", "C", "i", "t", "y", " ">>, <<"h", "o", "s", "p", "i", "t", "a", "l", " ", "t", "y", "p", "e">>>>,
     <<<<"H", "o", "s", "p", "i", "t", "a", "l", " ", "N", "a", "m", "e">>, <<"B", "e", "s", "t", "_", "T", "r", "e", "a", "t", "m", "e", "n", "t", "s">>, <<" ", "C", "i", "t", "y", " ">>, <<"h", "o", "s", "p", "i", "t", "a", "l", "_", "t", "y", "p", "e">>>>,
     <<<<"B", "e", "s", "t", "_", "T", "r", "e", "a", "t", "m", "e", "n", "t", "s">>, <<"H", "o", "s", "p", "i", "t", "a", "l", " ", "_", "T", "y", "p", "e">>>>,
     <<>>,
     GoodHeader \o <<<<"C", "I", "T", "Y">>>>,
     GoodHeader \o <<<<"h", "o", "s", "p", "i", "t", "a", "l", "_", "t", "y", "p", "e">>>>,
     GoodHeader \o <<<<"R", "a", "t", "i", "n", "g">>>>,
     <<<<"R", "a", "t", "i", "n", "g">>>> \o GoodHeader}
HeaderSheets ==
    {Sheet(h, <<[i \in DOMAIN h |->
                    IF NormalizeColumn(h[i]) = c_hospital_name THEN <<"A", "p", "o", "l", "l", "o">>
                    ELSE IF NormalizeColumn(h[i]) = c_best_treatments THEN <<"C", "a", "r", "d", "i", "a", "c", " ", "S", "u", "r", "g", "e", "r", "y">>
                    ELSE IF NormalizeColumn(h[i]) = c_city THEN <<"G", "o", "a">>
                    ELSE <<"p", "r", "i", "v", "a", "t", "e">>]>>) : h \in HeaderPool}

Lines(n, a, b, g, s, r, c, t, h) ==
    [name |-> n, age |-> a, bmi |-> b, gender |-> g, smoker |-> s, region |-> r,
     city |-> c, treatment |-> t, hospital_type |-> h]

NameLines == {<<"A", "s", "h", "a">>, <<" ", "R", "a", "v", "i", " ">>}
AgeLines == {<<"6", "0">>, <<"6", "1">>, <<" ", "3", "0", " ">>, <<"6", "x">>, <<"6", "0", ".", "5">>, <<>>}
BmiLines == {<<"3", "0">>, <<"3", "0", ".", "0">>, <<"3", "0", ".", "5">>, <<" ", "3", "1">>, <<"2", "2">>, <<"a", "b", "c">>, <<"n", "a", "n">>}
GenderLines == {<<"F", "e", "m", "a", "l", "e">>, <<"O", "t", "h", "e", "r">>}
SmokerLines == {<<"y", "e", "s">>, <<" ", "Y", "E", "S", " ">>, <<"n", "o">>, <<"y", "e", "s", "s">>, <<"y">>}
RegionLines == {<<"s", "o", "u", "t", "h">>, <<" ", "N", "o", "r", "t", "h", " ">>}
CityLines == {<<"G", "o", "a">>, <<" ", "g", "o", "a", " ">>, <<"g", "o">>, <<>>, <<"g", ".", "a">>, <<"$">>, <<"(">>, <<"P", "u", "n", "e">>, <<"x", "y">>}
TreatmentLines == DOMAIN treatment_costs \cup {<<" ", "C", "a", "r", "d", "i", "a", "c", " ">>, <<"x", "y", "z">>, <<"c", "a", "r", "d">>}
MatchTreatmentLines == {<<" ", "C", "a", "r", "d", "i", "a", "c", " ">>, <<"F", "E", "V", "E", "R">>, <<"d", "e", "n", "t", "a", "l", " ", "c", "a", "r", "e">>}
HospitalTypeLines == {<<"p", "u", "b", "l", "i", "c">>, <<" ", "P", "r", "i", "v", "a", "t", "e", " ">>, <<"S", "P", "E", "C", "I", "A", "L", "T", "Y">>, <<"p", "r", "e", "m", "i", "u", "m">>, <<>>}

\* runs that vary the answers the estimate reads
EstimateRuns ==
    {[sheet |-> Sheet(GoodHeader, <<RowA>>),
      stdin |-> Lines(<<"A", "s", "h", "a">>, a, b, <<"F", "e", "m", "a", "l", "e">>, s, <<"s", "o", "u", "t", "h">>, <<"G", "o", "a">>, t, h)] :
        a \in AgeLines, b \in BmiLines, s \in SmokerLines, t \in TreatmentLines,
        h \in HospitalTypeLines}

\* runs that vary the answers the estimate does not read
NeutralRuns ==
    {[sheet |-> Sheet(GoodHeader, <<RowA>>),
      stdin |-> Lines(n, a, <<"3", "0", ".", "5">>, g, <<"y", "e", "s">>, r, c, <<" ", "C", "a", "r", "d", "i", "a", "c", " ">>, <<" ", "P", "r", "i", "v", "a", "t", "e", " ">>)] :
        n \in NameLines, a \in {<<"6", "0">>, <<"6", "1">>}, g \in GenderLines, r \in RegionLines,
        c \in {<<"G", "o", "a">>, <<"x", "y">>, <<>>}}

\* runs that vary the directory, the city and the treatment
MatchRuns ==
    {[sheet |-> Sheet(GoodHeader, d),
      stdin |-> Lines(<<"A", "s", "h", "a">>, <<"6", "1">>, <<"2", "2">>, <<"F", "e", "m", "a", "l", "e">>, <<"n", "o">>, <<"s", "o", "u", "t", "h">>, c, t, <<" ", "P", "r", "i", "v", "a", "t", "e", " ">>)] :
        d \in ShortDirectories \cup LongDirectories, c \in CityLines,
        t \in MatchTreatmentLines}

\* runs that vary the header row of the sheet
HeaderRuns ==
    {[sheet |-> sh,
      stdin |-> Lines(<<"A", "s", "h", "a">>, a, <<"2", "2">>, <<"F", "e", "m", "a", "l", "e">>, <<"n", "o">>, <<"s", "o", "u", "t", "h">>, c, <<" ", "C", "a", "r", "d", "i", "a", "c", " ">>, h)] :
        sh \in HeaderSheets, a \in {<<"6", "1">>, <<"6", "x">>},
        c \in {<<"G", "o", "a">>, <<"x", "y">>},
        h \in {<<" ", "P", "r", "i", "v", "a", "t", "e", " ">>, <<"p", "r", "e", "m", "i", "u", "m">>}}

(***************************************************************************)
(* The state of a run.                                                     *)
(***************************************************************************)
VARIABLES
    sheet,          \* the file at file_path
    stdin,          \* the lines the user types, by prompt
    pc,             \* the block of the script that runs next
    hospital_df,    \* the loaded frame
    missing,        \* the required columns the frame lacks
    name, age, bmi, gender, smoker, region, city, treatment, hospital_type,
    min_base_cost, max_base_cost, estimated_cost,
    nearby,         \* the filtered frame, as row numbers of hospital_df
    hospital_info,  \* the label column added to nearby
    out,            \* what the run has printed or shown, in order
    summary,        \* the summary block, once printed
    table,          \* the rows of the listing, once printed
    chart,          \* the bars of the chart, once shown
    error,          \* the exception that ended the run, if one did
    exit_code

vars ==
    <<sheet, stdin, pc, hospital_df, missing, name, age, bmi, gender, smoker, region, city,
      treatment, hospital_type, min_base_cost, max_base_cost, estimated_cost, nearby,
      hospital_info, out, summary, table, chart, error, exit_code>>

inputVars == <<sheet, stdin>>
answerVars == <<name, age, bmi, gender, smoker, region, city, treatment, hospital_type>>
costVars == <<min_base_cost, max_base_cost, estimated_cost>>
reportVars == <<summary, table, chart>>

NoFloat == [ok |-> FALSE, kind |-> "none", neg |-> FALSE, num |-> 0, den |-> 1]

InitWith(runs) ==
    /\ \E run \in runs : sheet = run.sheet /\ stdin = run.stdin
    /\ pc = "load"
    /\ hospital_df = Sheet(<<>>, <<>>)
    /\ missing = <<>>
    /\ name = <<>> /\ age = 0 /\ bmi = NoFloat /\ gender = <<>> /\ smoker = <<>>
    /\ region = <<>> /\ city = <<>> /\ treatment = <<>> /\ hospital_type = <<>>
    /\ min_base_cost = 0 /\ max_base_cost = 0 /\ estimated_cost = 0
    /\ nearby = <<>>
    /\ hospital_info = <<>>
    /\ out = <<>>
    /\ summary = <<>>
    /\ table = <<>>
    /\ chart = <<>>
    /\ error = "none"
    /\ exit_code = 0

InitEstimate == InitWith(EstimateRuns \cup NeutralRuns)
InitMatch == InitWith(MatchRuns)
InitHeader == InitWith(HeaderRuns)

\* an exception nobody catches: the traceback is printed and the exit code is 1
Raise(kind) ==
    /\ pc' = "raised"
    /\ error' = kind
    /\ exit_code' = 1
    /\ out' = Append(out, "traceback")

\* lines 16-34: read the sheet, normalise the header, check the required
\* columns, rename 'hospital _type', clean the three text columns
LoadDataset ==
    /\ pc = "load"
    /\ LET cols == [i \in DOMAIN sheet.columns |-> NormalizeColumn(sheet.columns[i])]
           miss == MissingOf(expected_cols, cols)
           renamed == [i \in DOMAIN cols |-> RenameColumn(cols[i])]
           cleaned == {c_best_treatments, c_city, c_hospital_type}
       IN  IF miss # <<>>
           THEN /\ missing' = miss
                /\ hospital_df' = Sheet(cols, sheet.rows)
                /\ Raise("ValueError")
           ELSE IF \E c \in cleaned : ~IsSeries(renamed, c)
           THEN /\ missing' = miss
                /\ hospital_df' = Sheet(renamed, sheet.rows)
                /\ Raise("AttributeError")
           ELSE /\ missing' = miss
                /\ hospital_df' =
                       Sheet(renamed,
                             [r \in DOMAIN sheet.rows |->
                                 [i \in DOMAIN renamed |->
                                     IF renamed[i] \in cleaned
                                     THEN CleanCell(sheet.rows[r][i])
                                     ELSE sheet.rows[r][i]]])
                /\ pc' = "numeric"
                /\ UNCHANGED <<out, error, exit_code>>
    /\ UNCHANGED <<inputVars, answerVars, costVars, nearby, hospital_info, reportVars>>

\* lines 53-60: the banner, then name, age and bmi inside the try block
ReadNumeric ==
    /\ pc = "numeric"
    /\ name' = Strip(stdin.name)
    /\ LET a == ParseInt(Strip(stdin.age))
           b == ParseFloat(Strip(stdin.bmi))
       IN  IF ~a.ok
           THEN /\ UNCHANGED <<age, bmi>>
                /\ out' = out \o <<"banner", "invalid_numeric">>
                /\ pc' = "exited"
                /\ exit_code' = 1
           ELSE IF ~b.ok
           THEN /\ age' = a.val
                /\ UNCHANGED bmi
                /\ out' = out \o <<"banner", "invalid_numeric">>
                /\ pc' = "exited"
                /\ exit_code' = 1
           ELSE /\ age' = a.val
                /\ bmi' = b
                /\ out' = Append(out, "banner")
                /\ pc' = "text"
                /\ UNCHANGED exit_code
    /\ UNCHANGED <<inputVars, hospital_df, missing, gender, smoker, region, city, treatment,
                   hospital_type, costVars, nearby, hospital_info, reportVars, error>>

\* lines 62-71: the free-text answers and the list of treatments
ReadText ==
    /\ pc = "text"
    /\ gender' = Strip(stdin.gender)
    /\ smoker' = Lower(Strip(stdin.smoker))
    /\ region' = Lower(Strip(stdin.region))
    /\ city' = Lower(Strip(stdin.city))
    /\ treatment' = Lower(Strip(stdin.treatment))
    /\ hospital_type' = Lower(Strip(stdin.hospital_type))
    /\ out' = Append(out, "treatments_menu")
    /\ pc' = "validate"
    /\ UNCHANGED <<inputVars, hospital_df, missing, name, age, bmi, costVars, nearby,
                   hospital_info, reportVars, error, exit_code>>

ValidTreatment(t) == t \in DOMAIN treatment_costs
\* faulty variant of ValidHospitalType: no check of the tier, which leaves the
\* (0, 0) default of .get to answer
ValidHospitalTypeAny(h) == TRUE
ValidHospitalType(h) == h \in {s_public, s_private, s_specialty}

\* lines 73-79
Validate ==
    /\ pc = "validate"
    /\ IF ~ValidTreatment(treatment)
       THEN /\ out' = Append(out, "unknown_treatment")
            /\ pc' = "exited"
            /\ exit_code' = 1
       ELSE IF ~ValidHospitalType(hospital_type)
       THEN /\ out' = Append(out, "invalid_hospital_type")
            /\ pc' = "exited"
            /\ exit_code' = 1
       ELSE /\ pc' = "estimate"
            /\ UNCHANGED <<out, exit_code>>
    /\ UNCHANGED <<inputVars, hospital_df, missing, answerVars, costVars, nearby,
                   hospital_info, reportVars, error>>

\* lines 84-100: the estimate and the summary block
Estimate ==
    /\ pc = "estimate"
    /\ LET range == BaseRange(treatment, hospital_type)
           cost == EstimatedCost(range[1], range[2], smoker, bmi, age)
       IN  /\ min_base_cost' = range[1]
           /\ max_base_cost' = range[2]
           /\ estimated_cost' = cost
           /\ summary' = <<SummaryBlock(name, city, hospital_type, cost, range[1], range[2])>>
    /\ out' = Append(out, "summary")
    /\ pc' = "match"
    /\ UNCHANGED <<inputVars, hospital_df, missing, answerVars, nearby, hospital_info,
                   table, chart, error, exit_code>>

\* lines 106-119: the primary mask, and the fallback when it keeps no row;
\* a pattern that does not compile raises re.error at line 113
Match ==
    /\ pc = "match"
    /\ LET treatment_lc == Lower(treatment)
           city_lc == Lower(city)
           primary == Primary(hospital_df, treatment_lc, city_lc)
       IN  IF ~ReCompiles(treatment_lc) \/ ~ReCompiles(city_lc)
           THEN /\ Raise("re.error")
                /\ UNCHANGED nearby
           ELSE IF primary = <<>>
           THEN /\ out' = Append(out, "fallback_notice")
                /\ nearby' = Fallback(hospital_df, treatment_lc)
                /\ pc' = "label"
                /\ UNCHANGED <<error, exit_code>>
           ELSE /\ nearby' = primary
                /\ pc' = "label"
                /\ UNCHANGED <<out, error, exit_code>>
    /\ UNCHANGED <<inputVars, hospital_df, missing, answerVars, costVars, hospital_info,
                   reportVars>>

\* lines 121-131: the label column.  The frame always has 'hospital_type', so
\* the first branch runs.  On a frame without rows DataFrame.apply(axis=1)
\* returns a frame, not a column, and the assignment raises ValueError
Label ==
    /\ pc = "label"
    /\ IF nearby = <<>>
       THEN /\ Raise("ValueError")
            /\ UNCHANGED hospital_info
       ELSE /\ hospital_info' = [i \in DOMAIN nearby |-> HospitalInfo(hospital_df, nearby[i])]
            /\ pc' = "display"
            /\ UNCHANGED <<out, error, exit_code>>
    /\ UNCHANGED <<inputVars, hospital_df, missing, answerVars, costVars, nearby, reportVars>>

\* lines 134-146: the first rows, numbered, as a table
Display ==
    /\ pc = "display"
    /\ table' = TableRows(hospital_df, nearby, hospital_info)
    /\ out' = Append(out, "table")
    /\ pc' = "chart"
    /\ UNCHANGED <<inputVars, hospital_df, missing, answerVars, costVars, nearby,
                   hospital_info, summary, chart, error, exit_code>>

\* lines 151-162: the bar chart of the three tiers, then "Completed!"
Chart ==
    /\ pc = "chart"
    /\ chart' = AvgCostData(treatment)
    /\ out' = out \o <<"chart", "completed">>
    /\ pc' = "done"
    /\ UNCHANGED <<inputVars, hospital_df, missing, answerVars, costVars, nearby,
                   hospital_info, summary, table, error, exit_code>>

Next ==
    \/ LoadDataset
    \/ ReadNumeric
    \/ ReadText
    \/ Validate
    \/ Estimate
    \/ Match
    \/ Label
    \/ Display
    \/ Chart

\* the estimate under every answer it reads
SpecEstimate == InitEstimate /\ [][Next]_vars
\* the hospital filter under every directory, city and treatment of the model
SpecMatch == InitMatch /\ [][Next]_vars
\* the start-up check under every header row of the model
SpecHeader == InitHeader /\ [][Next]_vars

Terminated == pc \in {"done", "exited", "raised"}

(***************************************************************************)
(* What the claims speak of, in their own terms.                           *)
(***************************************************************************)
InOut(e) == \E i \in DOMAIN out : out[i] = e

\* the answers as the claims normalise them: trimmed, lowercased
TreatmentAnswer == Lower(Strip(stdin.treatment))
TierAnswer == Lower(Strip(stdin.hospital_type))
SmokerAnswer == Lower(Strip(stdin.smoker))
CityAnswer == Lower(Strip(stdin.city))

IsNumber(text) == ParseFloat(text).ok
TreatmentKnown == TreatmentAnswer \in DOMAIN treatment_costs
TierKnown == TierAnswer \in {s_public, s_private, s_specialty}

SmokerApplies == SmokerAnswer = s_yes
BmiApplies == FloatGreater(ParseFloat(stdin.bmi), 30)
AgeApplies == ParseInt(stdin.age).val > 60
Adjustments ==
    (IF SmokerApplies THEN 1000 ELSE 0) + (IF BmiApplies THEN 500 ELSE 0)
        + (IF AgeApplies THEN 1000 ELSE 0)

\* C1: in every run that passes validation the estimated cost is (min + max)/2
\* of table[T][K], plus 1000 iff the smoker answer (trimmed, lowercased) is
\* "yes", plus 500 iff bmi > 30, plus 1000 iff age > 60; nothing else enters
\* (stated on the doubled cost, so that no rounding can hide in the average)
C1_EstimateIsAveragePlusAdjustments ==
    summary # <<>> =>
        /\ TreatmentKnown /\ TierKnown
        /\ 2 * summary[1].estimated_cost =
               treatment_costs[TreatmentAnswer][TierAnswer][1]
                   + treatment_costs[TreatmentAnswer][TierAnswer][2] + 2 * Adjustments
        /\ estimated_cost = summary[1].estimated_cost

\* a summary whose estimate carries all three adjustments, 2500 in all
C1_Witness ==
    /\ summary # <<>>
    /\ SmokerApplies /\ BmiApplies /\ AgeApplies
    /\ summary[1].estimated_cost = Average(min_base_cost, max_base_cost) + 2500

\* C2: the range reported with the estimate is exactly table[T][K], whatever
\* the smoker, bmi and age adjustments add to the point estimate
C2_RangeIsUnadjusted ==
    summary # <<>> =>
        /\ TreatmentKnown /\ TierKnown
        /\ summary[1].range = treatment_costs[TreatmentAnswer][TierAnswer]
        /\ <<min_base_cost, max_base_cost>> = treatment_costs[TreatmentAnswer][TierAnswer]

\* a summary whose estimate is adjusted while its range is the table's
C2_Witness ==
    /\ summary # <<>>
    /\ Adjustments > 0
    /\ 2 * summary[1].estimated_cost > summary[1].range[1] + summary[1].range[2]
    /\ summary[1].range = treatment_costs[TreatmentAnswer][TierAnswer]

InvalidAnswers ==
    \/ ~IsNumber(stdin.age)
    \/ ~IsNumber(stdin.bmi)
    \/ ~TreatmentKnown
    \/ ~TierKnown

NoReport ==
    /\ summary = <<>> /\ table = <<>> /\ chart = <<>>
    /\ ~InOut("summary") /\ ~InOut("table") /\ ~InOut("chart")

ErrorPrinted ==
    \/ InOut("invalid_numeric")
    \/ InOut("unknown_treatment")
    \/ InOut("invalid_hospital_type")
    \/ InOut("traceback")

\* C3: when age or bmi is no number, or the treatment (trimmed, lowercased) is
\* no key of the table, or the hospital type is none of the three tiers, the
\* run never produces a summary, a listing or a chart, it never gets past the
\* validation, and it ends with an error message and a non-zero exit code
C3_InvalidAnswersAbort ==
    InvalidAnswers =>
        /\ NoReport
        /\ pc # "done"
        /\ ~Terminated => pc \in {"load", "numeric", "text", "validate"}
        /\ Terminated => ErrorPrinted /\ exit_code # 0

\* a run with a known treatment and numbers for age and bmi that ended on the
\* hospital type alone
C3_Witness ==
    /\ pc = "exited"
    /\ IsNumber(stdin.age) /\ IsNumber(stdin.bmi) /\ TreatmentKnown /\ ~TierKnown
    /\ InOut("invalid_hospital_type")
    /\ exit_code = 1

(***************************************************************************)
(* The hospital filter, as the claims state it: plain substring            *)
(* containment on the lowercased fields.                                   *)
(***************************************************************************)
Contains(hay, needle) ==
    \E i \in 1..(Len(hay) - Len(needle) + 1) : SubSeq(hay, i, i + Len(needle) - 1) = needle

RowNumbers == DOMAIN hospital_df.rows
TreatmentsField(r) == Cell(hospital_df, r, c_best_treatments)
CityField(r) == Cell(hospital_df, r, c_city)
TierField(r) == Cell(hospital_df, r, c_hospital_type)
NameField(r) == Cell(hospital_df, r, c_hospital_name)

OffersTreatment(r) == Contains(Lower(TreatmentsField(r)), TreatmentAnswer)
InCity(r) == Contains(Lower(CityField(r)), CityAnswer)

SubstringPrimary == {r \in RowNumbers : OffersTreatment(r) /\ InCity(r)}
SubstringFallback == {r \in RowNumbers : OffersTreatment(r)}

\* the filter of lines 113-119 has run
FilterRan ==
    \/ pc \in {"label", "display", "chart", "done"}
    \/ pc = "raised" /\ error = "ValueError" /\ InOut("summary")

UsedFallback == InOut("fallback_notice")
MatchResult == {nearby[i] : i \in DOMAIN nearby}

\* C4: when at least one record contains the treatment in its treatments field
\* and the city query in its city field (plain, case-insensitive substrings),
\* the match result is exactly those records and the fallback is not used
C4_PrimaryIsSubstringMatch ==
    FilterRan /\ SubstringPrimary # {} =>
        /\ MatchResult = SubstringPrimary
        /\ ~UsedFallback

\* C5: the fallback is used iff no record contains both the treatment and the
\* city; when it is used the result is exactly the records that contain the
\* treatment, and it is empty when none does
C5_FallbackIffPrimaryEmpty ==
    FilterRan =>
        /\ UsedFallback <=> SubstringPrimary = {}
        /\ UsedFallback => MatchResult = SubstringFallback

IsTitleOf(y, x) ==
    /\ Len(y) = Len(x)
    /\ \A i \in DOMAIN x :
          /\ LowerChar(y[i]) = LowerChar(x[i])
          /\ IsCased(x[i]) => (IsUpper(y[i]) <=> (i = 1 \/ ~IsCased(x[i - 1])))

Labelled == pc \in {"display", "chart", "done"}
NameText(r) == IF NameField(r) = NaN THEN s_nan ELSE NameField(r)

\* C7, as the specification states it: the label is "{name} ({tier title-cased})"
\* when the tier is non-empty and exactly "{name}" when it is empty or missing
C7_LabelOmitsEmptyTier ==
    Labelled =>
        \A i \in DOMAIN nearby :
            IF TierField(nearby[i]) = <<>>
            THEN hospital_info[i] = NameText(nearby[i])
            ELSE hospital_info[i] =
                     NameText(nearby[i]) \o <<" ", "(">> \o Title(TierField(nearby[i])) \o <<")">>

\* C7, amended: the label of every record of the match result is the name, a
\* space, and the title-cased tier in parentheses; with an empty or missing
\* tier the parentheses stay and are empty: "{name} ()"
C7_LabelAlwaysHasParentheses ==
    Labelled =>
        /\ DOMAIN hospital_info = DOMAIN nearby
        /\ \A i \in DOMAIN nearby :
              LET n == Len(NameText(nearby[i]))
                  l == hospital_info[i]
              IN  /\ Len(l) = n + 3 + Len(TierField(nearby[i]))
                  /\ SubSeq(l, 1, n) = NameText(nearby[i])
                  /\ SubSeq(l, n + 1, n + 2) = <<" ", "(">>
                  /\ IsTitleOf(SubSeq(l, n + 3, Len(l) - 1), TierField(nearby[i]))
                  /\ l[Len(l)] = ")"

\* a labelled result with a record of empty tier, labelled "{name} ()", and a
\* record whose tier is not spelt in title case in the sheet
C7_Witness ==
    /\ Labelled
    /\ \E i \in DOMAIN nearby :
          /\ TierField(nearby[i]) = <<>>
          /\ hospital_info[i] = NameText(nearby[i]) \o <<" ", "(", ")">>
    /\ \E i \in DOMAIN nearby :
          /\ TierField(nearby[i]) # <<>>
          /\ Title(TierField(nearby[i])) # TierField(nearby[i])

Listed == InOut("table")
Min(a, b) == IF a < b THEN a ELSE b

\* the rows the filter keeps, by the masks the script computes
KeptRows ==
    IF UsedFallback
    THEN {r \in RowNumbers : TreatmentMask(hospital_df, Lower(treatment))[r]}
    ELSE {r \in RowNumbers :
             TreatmentMask(hospital_df, Lower(treatment))[r] /\ CityMask(hospital_df, Lower(city))[r]}

\* C8: the listing is the first min(10, n) records of the n-record match
\* result, in the directory's order, without duplicates or gaps, numbered from
\* 1; it never has more than 10 rows; the fallback is decided on the whole
\* primary result, before any truncation
C8_ListingIsFirstTen ==
    Listed =>
        /\ Len(table) = Min(10, Len(nearby))
        /\ Len(table) <= 10
        /\ \A i \in DOMAIN table :
              /\ table[i].no = i
              /\ table[i].hospital = hospital_info[i]
              /\ table[i].city = Title(CityField(nearby[i]))
        /\ \A i, j \in DOMAIN nearby : i < j => nearby[i] < nearby[j]
        /\ MatchResult = KeptRows
        /\ UsedFallback <=>
               ~\E r \in RowNumbers :
                    /\ TreatmentMask(hospital_df, Lower(treatment))[r]
                    /\ CityMask(hospital_df, Lower(city))[r]

\* a listing cut to 10 rows from a longer match result that skips a row of the
\* directory
C8_Witness ==
    /\ Listed
    /\ Len(nearby) > 10
    /\ Len(table) = 10
    /\ \E r \in RowNumbers : r \notin MatchResult /\ r < nearby[Len(nearby)]

ColumnsPresent == MissingOf(expected_cols, [i \in DOMAIN sheet.columns |-> Lower(Strip(sheet.columns[i]))]) = <<>>

ValidAnswers ==
    /\ ParseInt(stdin.age).ok
    /\ ParseFloat(stdin.bmi).ok
    /\ TreatmentKnown
    /\ TierKnown

\* C9: a run whose directory has the required columns, whose age is an integer
\* and bmi a float, whose treatment is a key of the table and whose hospital
\* type is a tier ends normally, after the summary, the listing and the chart,
\* whatever the other answers and the directory hold
C9_ValidRunCompletes ==
    ColumnsPresent /\ ValidAnswers /\ Terminated =>
        /\ pc = "done"
        /\ exit_code = 0
        /\ InOut("summary") /\ InOut("table") /\ InOut("chart")

(***************************************************************************)
(* The start-up check of the sheet's header.                               *)
(***************************************************************************)
NormalizedLabels == {Lower(Strip(sheet.columns[i])) : i \in DOMAIN sheet.columns}
LabelCount(c) == Cardinality({i \in DOMAIN sheet.columns : Lower(Strip(sheet.columns[i])) = c})

\* the run ended in LoadDataset: an exception, and nothing printed before it
LoadFailed == pc = "raised" /\ out = <<"traceback">>

s_hospital_type_spaced == <<"h", "o", "s", "p", "i", "t", "a", "l", " ", "t", "y", "p", "e">>
\* the required columns as the specification names them
SpecRequired == <<c_hospital_name, c_best_treatments, c_city, s_hospital_type_spaced>>
\* the required columns as the script names them
CodeRequired == <<c_hospital_name, c_best_treatments, c_city, c_hospital__type>>

Lacking(required) ==
    SelectSeq(required, LAMBDA c : c \notin NormalizedLabels)

\* C10, as the specification states it: the trimmed, lowercased header is
\* checked for hospital name, best_treatments, city and hospital type before
\* any prompt; with all four the run goes on to the prompts, and without one of
\* them it fails with an error that names exactly the missing columns
C10_RequiredColumnsAsSpecified ==
    /\ pc = "load" => out = <<>>
    /\ pc # "load" =>
          IF Lacking(SpecRequired) = <<>>
          THEN ~LoadFailed
          ELSE LoadFailed /\ error = "ValueError" /\ missing = Lacking(SpecRequired)

\* C10, amended: the fourth required column is 'hospital _type', with a space
\* before the underscore.  Without one of the four the run fails before any
\* prompt with a ValueError that names exactly the missing ones, in the order
\* hospital name, best_treatments, city, hospital _type.  With all four the
\* check passes; the run then reaches the prompts unless best_treatments, city
\* or the tier column (hospital _type or hospital_type) occurs twice among the
\* normalised labels, which ends it with an AttributeError
C10_RequiredColumnsOfTheScript ==
    /\ pc = "load" => out = <<>>
    /\ pc # "load" =>
          IF Lacking(CodeRequired) # <<>>
          THEN LoadFailed /\ error = "ValueError" /\ missing = Lacking(CodeRequired)
          ELSE /\ missing = <<>>
               /\ error # "ValueError" \/ InOut("summary")
               /\ LoadFailed <=>
                      \/ LabelCount(c_best_treatments) > 1
                      \/ LabelCount(c_city) > 1
                      \/ LabelCount(c_hospital__type) + LabelCount(c_hospital_type) > 1

\* a sheet whose header spells the columns in mixed case and with blanks but
\* has 'hospital type' for the tier: the run fails naming 'hospital _type'
C10_Witness ==
    /\ LoadFailed
    /\ error = "ValueError"
    /\ missing = <<c_hospital__type>>
    /\ s_hospital_type_spaced \in NormalizedLabels
    /\ \E i \in DOMAIN sheet.columns : sheet.columns[i] # Lower(Strip(sheet.columns[i]))

====
